---- MODULE Spec2Model ----
(***************************************************************************)
(* The two notebooks of ds-blog as a kernel session: the namespace of the  *)
(* kernel is the state, executing a code cell is an action.  The array and *)
(* table operations the cells call (numpy broadcasting, boolean masking,   *)
(* reshape, mean, column_stack, pandas pivot_table, melt, get_dummies,     *)
(* dropna, duplicated, scikit-learn's input validation) are operators that *)
(* compute what the library computes.  Floating point numbers are modelled *)
(* as exact integers; inputs of a division are drawn so that it is exact.  *)
(***************************************************************************)
EXTENDS Integers, Sequences, FiniteSets, TLC

VARIABLES
    given,  \* what the session loaded before the first cell: notebook and data
    ns,     \* the kernel namespace: one field per notebook variable
    out,    \* the cell executed last: its inputs, status and displayed value
    done    \* the cells executed so far (used when each cell runs once)

vars == <<given, ns, out, done>>

----------------------------------------------------------------------------
(* Bounds *)

MaxNx == 2          \* rows of the 2-D array v
MaxNy == 2          \* columns of the 2-D array v
NRows == 2          \* rows of the random (NRows, 2) array (10 in the notebook)
MaxSamples == 2     \* samples of the random 1-D arrays (10 in the notebook)
MaxLen == 3         \* length of the 1-D arrays that are masked
MaxRows == 2        \* rows of the tall student table
MaxClusterRows == 3 \* rows of the table that is one-hot encoded

----------------------------------------------------------------------------
(* Numbers and sequences *)

Max(a, b) == IF a >= b THEN a ELSE b

RECURSIVE Prod(_)
Prod(s) == IF s = <<>> THEN 1 ELSE Head(s) * Prod(Tail(s))

RECURSIVE SumSeq(_)
SumSeq(s) == IF s = <<>> THEN 0 ELSE Head(s) + SumSeq(Tail(s))

RECURSIVE Gcd(_, _)
Gcd(a, b) == IF b = 0 THEN a ELSE Gcd(b, a % b)

RECURSIVE LcmUpTo(_)
LcmUpTo(n) == IF n <= 1 THEN 1 ELSE (LcmUpTo(n - 1) * n) \div Gcd(LcmUpTo(n - 1), n)

\* All sequences over S of a length in lo..hi
SeqsOf(S, lo, hi) == UNION {[1..n -> S] : n \in lo..hi}

----------------------------------------------------------------------------
(* numpy arrays: a shape and the elements in row-major (C) order *)

Arr(shape, data) == [shape |-> shape, data |-> data]

NoArray == Arr(<<0>>, <<>>)

Ok(value) == [status |-> "ok", value |-> value]
Raise(error) == [status |-> error, value |-> NoArray]

Ndim(a) == Len(a.shape)

\* np.zeros(shape) for a shape of integers
Zeros(shape) == Arr(shape, [k \in 1..Prod(shape) |-> 0])

\* np.arange(n)
Arange(n) == Arr(<<n>>, [k \in 1..n |-> k - 1])

\* np.linspace(start, stop, num) when the step is a whole number
Linspace(start, stop, num) ==
    Arr(<<num>>, [k \in 1..num |->
        IF num = 1 THEN start ELSE start + ((k - 1) * (stop - start)) \div (num - 1)])

\* the flat (0-based) position of a multi-index, and back
RECURSIVE Ravel(_, _)
Ravel(idx, shape) ==
    IF idx = <<>> THEN 0
    ELSE Head(idx) * Prod(Tail(shape)) + Ravel(Tail(idx), Tail(shape))

Unravel(k, shape) ==
    [i \in 1..Len(shape) |->
        (k \div Prod(SubSeq(shape, i + 1, Len(shape)))) % shape[i]]

\* a[i, j] of a 2-D array, 0-based
At2(a, i, j) == a.data[Ravel(<<i, j>>, a.shape) + 1]

\* v[i, :] of a 2-D array, 0-based
Row(a, i) == [j \in 1..a.shape[2] |-> At2(a, i, j - 1)]

(* Broadcasting: shapes are aligned on their last axes, a missing leading  *)
(* axis counts as 1, and two lengths are compatible when they are equal or *)
(* one of them is 1.                                                       *)
Pad(shape, n) ==
    [i \in 1..n |-> IF i <= n - Len(shape) THEN 1 ELSE shape[i - (n - Len(shape))]]

Compatible(s1, s2) ==
    LET n == Max(Len(s1), Len(s2))
        p1 == Pad(s1, n)
        p2 == Pad(s2, n)
    IN \A i \in 1..n : p1[i] = p2[i] \/ p1[i] = 1 \/ p2[i] = 1

BroadcastShape(s1, s2) ==
    LET n == Max(Len(s1), Len(s2))
        p1 == Pad(s1, n)
        p2 == Pad(s2, n)
    IN [i \in 1..n |-> IF p1[i] = 1 THEN p2[i] ELSE p1[i]]

\* the element of a that the result's multi-index idx (of n axes) reads
Pick(a, idx, n) ==
    LET p == Pad(a.shape, n)
        own == [i \in 1..n |-> IF p[i] = 1 THEN 0 ELSE idx[i]]
    IN a.data[Ravel(own, p) + 1]

\* mutant: the mask counted the wrong way round
AsIntMutant(b) == IF b THEN 0 ELSE 1

\* True counts as 1 and False as 0 in arithmetic
AsInt(b) == IF b THEN 1 ELSE 0

\* the scalar operation of a ufunc on one pair of elements
Elementwise(op, p, q) ==
    CASE op = "add" -> p + q
      [] op = "multiply" -> p * q
      [] op = "multiply_bool" -> p * AsInt(q)

\* a binary ufunc: elementwise over the broadcast shape, or ValueError
Ufunc(op, a, b) ==
    IF ~Compatible(a.shape, b.shape)
    THEN Raise("ValueError")
    ELSE LET s == BroadcastShape(a.shape, b.shape)
             n == Len(s)
         IN Ok(Arr(s, [k \in 1..Prod(s) |->
                Elementwise(op, Pick(a, Unravel(k - 1, s), n),
                                Pick(b, Unravel(k - 1, s), n))]))

Add(a, b) == Ufunc("add", a, b)

\* x * mask, for a boolean array mask
MulMask(a, mask) == Ufunc("multiply_bool", a, mask)

\* x > t: a boolean array of the shape of x
Greater(a, t) == Arr(a.shape, [k \in DOMAIN a.data |-> a.data[k] > t])

\* mutant: the positions collected in descending order
RECURSIVE NonzeroMutant(_, _)
NonzeroMutant(m, k) ==
    IF k > Len(m) THEN <<>>
    ELSE IF m[k] THEN NonzeroMutant(m, k + 1) \o <<k>> ELSE NonzeroMutant(m, k + 1)

\* the positions (1-based, ascending) where a boolean sequence is True
RECURSIVE Nonzero(_, _)
Nonzero(m, k) ==
    IF k > Len(m) THEN <<>>
    ELSE IF m[k] THEN <<k>> \o Nonzero(m, k + 1) ELSE Nonzero(m, k + 1)

\* x[mask] for a 1-D array and a boolean array: IndexError unless same shape
BoolIndex(a, mask) ==
    IF mask.shape # a.shape
    THEN Raise("IndexError")
    ELSE LET at == Nonzero(mask.data, 1)
         IN Ok(Arr(<<Len(at)>>, [k \in 1..Len(at) |-> a.data[at[k]]]))

\* y[np.newaxis, :] and x[:, np.newaxis]
NewAxisFirst(a) == Arr(<<1>> \o a.shape, a.data)
NewAxisLast(a) == Arr(a.shape \o <<1>>, a.data)

\* a.reshape(newshape): one length may be -1 and is then inferred
Reshape(a, newshape) ==
    LET size == Prod(a.shape)
        unknown == {i \in DOMAIN newshape : newshape[i] = -1}
        known == Prod(SelectSeq(newshape, LAMBDA d : d # -1))
        shape == [i \in DOMAIN newshape |->
                    IF newshape[i] = -1 THEN size \div known ELSE newshape[i]]
    IN IF Cardinality(unknown) > 1 THEN Raise("ValueError")
       ELSE IF unknown # {} /\ (known = 0 \/ size % known # 0) THEN Raise("ValueError")
       ELSE IF unknown = {} /\ known # size THEN Raise("ValueError")
       ELSE Ok(Arr(shape, a.data))

\* true division, exact on the values the model draws
TrueDiv(a, n) == a \div n

\* np.mean(v, axis=1) of a 2-D array, with or without keepdims
Mean1(a, keepdims) ==
    LET n0 == a.shape[1]
        n1 == a.shape[2]
    IN Arr(IF keepdims THEN <<n0, 1>> ELSE <<n0>>,
           [i \in 1..n0 |-> TrueDiv(SumSeq(Row(a, i - 1)), n1)])

\* ave_y = partial(np.mean, axis=1)
ave_y(a) == Mean1(a, FALSE)

\* np.column_stack((a, b)) of two 1-D arrays
ColumnStack(a, b) ==
    IF a.shape # b.shape
    THEN Raise("ValueError")
    ELSE LET n == a.shape[1]
         IN Ok(Arr(<<n, 2>>, [k \in 1..(2 * n) |->
                IF k % 2 = 1 THEN a.data[(k + 1) \div 2] ELSE b.data[k \div 2]]))

\* X[:, j] = src for a 2-D array X (j 0-based): src is broadcast to the column
SetColumn(a, j, src) ==
    IF Ndim(a) # 2 \/ j >= a.shape[2] THEN Raise("IndexError")
    ELSE IF ~Compatible(<<a.shape[1]>>, src.shape)
            \/ BroadcastShape(<<a.shape[1]>>, src.shape) # <<a.shape[1]>>
    THEN Raise("ValueError")
    ELSE Ok(Arr(a.shape, [k \in 1..Prod(a.shape) |->
            IF (k - 1) % a.shape[2] = j
            THEN Pick(src, <<(k - 1) \div a.shape[2]>>, 1)
            ELSE a.data[k]]))

(* The argument of np.zeros is a tuple of Python objects.  An item is an   *)
(* integer or itself a tuple (x1.shape is the tuple (n,)); np.zeros raises *)
(* TypeError for an item that is not an integer.                           *)
PyInt(n) == [int |-> TRUE, n |-> n, items |-> <<>>]
PyTuple(t) == [int |-> FALSE, n |-> 0, items |-> t]

NpZeros(arg) ==
    IF \E i \in DOMAIN arg : ~arg[i].int
    THEN Raise("TypeError")
    ELSE Ok(Zeros([i \in DOMAIN arg |-> arg[i].n]))

\* a scalar as a 0-d array
Scalar(c) == Arr(<<>>, <<c>>)
Mul(a, b) == Ufunc("multiply", a, b)

\* mutant: the number of dimensions of X is not checked
FitMutant(X, y) ==
    IF Ndim(y) < 1 \/ y.shape[1] # X.shape[1] THEN "ValueError" ELSE "ok"

(* Lasso.fit(X, y): scikit-learn validates its input before fitting.  X    *)
(* must be 2-D with at least one sample and one feature, y must have as    *)
(* many samples as X.                                                      *)
Fit(X, y) ==
    IF Ndim(X) # 2 THEN "ValueError"
    ELSE IF X.shape[1] < 1 \/ X.shape[2] < 1 THEN "ValueError"
    ELSE IF Ndim(y) < 1 \/ y.shape[1] # X.shape[1] THEN "ValueError"
    ELSE "ok"

----------------------------------------------------------------------------
(* The kernel namespace and the cells of the numpy notebook *)

\* the inputs of a cell: its random draws and the literals it compares with
Param(arr, noise, thr) == [arr |-> arr, noise |-> noise, thr |-> thr]
NoParam == Param(NoArray, NoArray, 0)

\* what executing a cell gives: the namespace after it, whether it raised,
\* and the value of its last expression when the notebook displays one
Done(n, status, shown, value) ==
    [ns |-> n, status |-> status, shown |-> shown, value |-> value]
Fails(n, error) == Done(n, error, FALSE, NoArray)

Bind(n, names) == [n EXCEPT !.defined = @ \cup names]

\* for j in range(ny): ave[i] += v[i, j]
RECURSIVE LoopJ(_, _, _, _)
LoopJ(acc, v, i, j) ==
    IF j >= v.shape[2] THEN acc ELSE LoopJ(acc + At2(v, i, j), v, i, j + 1)

\* for i in range(nx): <the loop over j>
RECURSIVE LoopI(_, _, _)
LoopI(ave, v, i) ==
    IF i >= v.shape[1] THEN ave
    ELSE LoopI([ave EXCEPT !.data[i + 1] = LoopJ(@, v, i, 0)], v, i + 1)

\* cell "nx, ny = v.shape ... ave[i] /= ny": the division follows the loops
DoubleLoop(n) ==
    IF "v" \notin n.defined THEN Fails(n, "NameError")
    ELSE IF Ndim(n.v) # 2 THEN Fails(n, "ValueError")
    ELSE LET nx == n.v.shape[1]
             ny == n.v.shape[2]
             summed == LoopI(Zeros(<<nx>>), n.v, 0)
             looped == [Bind(n, {"nx", "ny", "ave"}) EXCEPT
                            !.nx = nx, !.ny = ny, !.ave = summed]
         IN IF nx = 0 THEN Fails(looped, "NameError")
            ELSE Done([looped EXCEPT !.ave.data[nx] = TrueDiv(@, ny)],
                      "ok", FALSE, NoArray)

\* cell "for i in range(nx): ave[i] = np.mean(v[i, n:])": n is assigned nowhere
SingleLoop(n) ==
    IF "nx" \notin n.defined THEN Fails(n, "NameError")
    ELSE IF n.nx = 0 THEN Done(n, "ok", FALSE, NoArray)
    ELSE Fails(n, "NameError")

\* cell "ave = np.mean(v, axis=1, keepdims=True)"
MeanKeepdims(n) ==
    IF "v" \notin n.defined THEN Fails(n, "NameError")
    ELSE IF Ndim(n.v) < 2 THEN Fails(n, "AxisError")
    ELSE Done([Bind(n, {"ave"}) EXCEPT !.ave = Mean1(n.v, TRUE)], "ok", FALSE, NoArray)

\* cell "ave_y = partial(np.mean, axis=1); ave_y(v)"
PartialMean(n) ==
    IF "v" \notin n.defined THEN Fails(Bind(n, {"partial", "ave_y"}), "NameError")
    ELSE IF Ndim(n.v) < 2 THEN Fails(Bind(n, {"partial", "ave_y"}), "AxisError")
    ELSE Done(Bind(n, {"partial", "ave_y"}), "ok", TRUE, ave_y(n.v))

\* cell "x = np.random.randn(10, 2); y = np.array([1, 2]); x + y[np.newaxis, :]"
Broadcast(n, p) ==
    LET y == Arr(<<2>>, <<1, 2>>)
        bound == [Bind(n, {"x", "y"}) EXCEPT !.x = p.arr, !.y = y]
        sum == Add(p.arr, NewAxisFirst(y))
    IN Done(bound, sum.status, sum.status = "ok", sum.value)

\* cell "x = randn(10); y = 3*x + 5 + 0.1*randn(10); model = Lasso(); model.fit(x, y)"
LassoFit(n, p) ==
    LET y == Add(Add(Mul(Scalar(3), p.arr).value, Scalar(5)).value, p.noise)
        bound == [Bind(n, {"Lasso", "x"}) EXCEPT !.x = p.arr]
    IN IF y.status # "ok" THEN Fails(bound, y.status)
       ELSE LET made == [Bind(bound, {"y", "model"}) EXCEPT
                            !.y = y.value, !.model = [fitted |-> FALSE]]
                fit == Fit(made.x, made.y)
            IN IF fit # "ok" THEN Fails(made, fit)
               ELSE Done([made EXCEPT !.model.fitted = TRUE], "ok", FALSE, NoArray)

\* the fixes of the text: model.fit(x.reshape(-1, 1), y), model.fit(x[:, np.newaxis], y)
FitWith(n, X) ==
    IF {"model", "x", "y"} \subseteq n.defined /\ X.status = "ok"
    THEN LET fit == Fit(X.value, n.y)
         IN IF fit # "ok" THEN Fails(n, fit)
            ELSE Done([n EXCEPT !.model.fitted = TRUE], "ok", FALSE, NoArray)
    ELSE IF {"model", "x", "y"} \subseteq n.defined THEN Fails(n, X.status)
    ELSE Fails(n, "NameError")

FitReshape(n) == FitWith(n, Reshape(n.x, <<-1, 1>>))

FitNewaxis(n) ==
    FitWith(n, IF Ndim(n.x) = 1 THEN Ok(NewAxisLast(n.x)) ELSE Raise("IndexError"))

\* cell "x1 = randn(10); x2 = np.arange(10); X = np.column_stack((x1, x2));
\*       X = np.zeros((x1.shape, 2)); X[:, 0] = x1; X[:, 1] = x2"
Stack(n, p) ==
    LET x1 == p.arr
        x2 == Arange(x1.shape[1])
        named == [Bind(n, {"x1", "x2"}) EXCEPT !.x1 = x1, !.x2 = x2]
        stacked == ColumnStack(x1, x2)
        zeros == NpZeros(<<PyTuple(x1.shape), PyInt(2)>>)
    IN IF stacked.status # "ok" THEN Fails(named, stacked.status)
       ELSE LET first == [Bind(named, {"X"}) EXCEPT !.X = stacked.value]
            IN IF zeros.status # "ok" THEN Fails(first, zeros.status)
               ELSE LET col0 == SetColumn(zeros.value, 0, x1)
                    IN IF col0.status # "ok"
                       THEN Fails([first EXCEPT !.X = zeros.value], col0.status)
                       ELSE LET col1 == SetColumn(col0.value, 1, x2)
                            IN IF col1.status # "ok"
                               THEN Fails([first EXCEPT !.X = col0.value], col1.status)
                               ELSE Done([first EXCEPT !.X = col1.value],
                                         "ok", FALSE, NoArray)

\* mutant: the cell masks the x it finds in the namespace
MaskMutant(n, p) ==
    LET x == IF "x" \in n.defined THEN n.x ELSE p.arr
        bound == [Bind(n, {"x"}) EXCEPT !.x = x]
        picked == BoolIndex(x, Greater(x, p.thr))
    IN Done(bound, picked.status, picked.status = "ok", picked.value)

\* cell "x = np.linspace(1, 10, 10); x > 5; x[x > 5]"
Mask(n, p) ==
    LET bound == [Bind(n, {"x"}) EXCEPT !.x = p.arr]
        picked == BoolIndex(p.arr, Greater(p.arr, p.thr))
    IN Done(bound, picked.status, picked.status = "ok", picked.value)

\* cell "x * (x > 5)"
MaskMultiply(n, p) ==
    IF "x" \notin n.defined THEN Fails(n, "NameError")
    ELSE LET product == MulMask(n.x, Greater(n.x, p.thr))
         IN Done(n, product.status, product.status = "ok", product.value)

----------------------------------------------------------------------------
(* pandas tables.  A tall table is the sequence of its rows, a row a record *)
(* of its columns.  A missing value is NaN.                                 *)

NaN == "NaN"
IsNa(val) == val = NaN

\* the column values of the model, in the order pandas sorts them
Alphabet == <<"A", "B", "art", "id1", "id2", "math", "s1">>
Rank(s) == CHOOSE k \in DOMAIN Alphabet : Alphabet[k] = s

RECURSIVE TupleLess(_, _)
TupleLess(a, b) ==
    IF a = <<>> THEN b # <<>>
    ELSE IF b = <<>> THEN FALSE
    ELSE IF Head(a) # Head(b) THEN Rank(Head(a)) < Rank(Head(b))
    ELSE TupleLess(Tail(a), Tail(b))

\* the tuples of a set in ascending order
RECURSIVE SortTuples(_)
SortTuples(S) ==
    IF S = {} THEN <<>>
    ELSE LET least == CHOOSE m \in S : \A o \in S : ~TupleLess(o, m)
         IN <<least>> \o SortTuples(S \ {least})

\* the values of the columns `by` in a row
GroupKey(r, by) == [i \in DOMAIN by |-> r[by[i]]]
HasNaKey(r, by) == \E i \in DOMAIN by : IsNa(r[by[i]])

\* mutant: the first value of the group that is not missing
LastValidMutant(rows, key, by, col, k) ==
    LET valid == {i \in 1..k : GroupKey(rows[i], by) = key /\ ~IsNa(rows[i][col])}
    IN IF valid = {} THEN NaN
       ELSE rows[CHOOSE i \in valid : \A o \in valid : i <= o][col]

\* GroupBy.last: the last value of the group that is not missing, else NaN
RECURSIVE LastValid(_, _, _, _, _)
LastValid(rows, key, by, col, k) ==
    IF k = 0 THEN NaN
    ELSE IF GroupKey(rows[k], by) = key /\ ~IsNa(rows[k][col]) THEN rows[k][col]
    ELSE LastValid(rows, key, by, col, k - 1)

(* df.pivot_table(values, index, columns, aggfunc='last'): the rows are    *)
(* grouped by index + columns (a row with a missing key is in no group),   *)
(* each group is aggregated, groups whose aggregate is missing are dropped *)
(* and the column level is unstacked: sorted index, sorted columns, NaN in *)
(* the cells that have no group.                                           *)
PivotTable(df, values, index, columns) ==
    LET by == index \o <<columns>>
        keys == {GroupKey(df[k], by) : k \in {k \in DOMAIN df : ~HasNaKey(df[k], by)}}
        agged == {g \in keys : ~IsNa(LastValid(df, g, by, values, Len(df)))}
        idx == SortTuples({SubSeq(g, 1, Len(index)) : g \in agged})
        cols == SortTuples({<<g[Len(by)]>> : g \in agged})
    IN [index |-> idx,
        columns |-> [j \in DOMAIN cols |-> cols[j][1]],
        data |-> [i \in DOMAIN idx |-> [j \in DOMAIN cols |->
                    IF idx[i] \o cols[j] \in agged
                    THEN LastValid(df, idx[i] \o cols[j], by, values, Len(df))
                    ELSE NaN]]]

NoWide == [index |-> <<>>, columns |-> <<>>, data |-> <<>>]

ColumnPos(columns, name) ==
    CHOOSE j \in DOMAIN columns :
        columns[j] = name /\ \A i \in 1..(j - 1) : columns[i] # name

Range(f) == {f[i] : i \in DOMAIN f}

\* mutant: the rows without a value are left out
MeltMutant(wide, value_vars) ==
    LET cells == {<<j, i>> \in (DOMAIN value_vars) \X (DOMAIN wide.index) :
                    ~IsNa(wide.data[i][j])}
        RECURSIVE Listed(_)
        Listed(S) ==
            IF S = {} THEN <<>>
            ELSE LET c == CHOOSE c \in S : \A o \in S :
                            c[1] < o[1] \/ (c[1] = o[1] /\ c[2] <= o[2])
                 IN <<[id |-> wide.index[c[2]], variable |-> value_vars[c[1]],
                       value |-> wide.data[c[2]][c[1]]]>> \o Listed(S \ {c})
    IN [status |-> "ok", value |-> Listed(cells)]

(* pd.melt(wide, id_vars=<the index columns>, value_vars): one row per     *)
(* value column and row of the wide table, value column by value column.   *)
Melt(wide, value_vars) ==
    IF ~(Range(value_vars) \subseteq Range(wide.columns))
    THEN [status |-> "KeyError", value |-> <<>>]
    ELSE LET nr == Len(wide.index)
         IN [status |-> "ok",
             value |-> [k \in 1..(Len(value_vars) * nr) |->
                LET var == value_vars[((k - 1) \div nr) + 1]
                    i == ((k - 1) % nr) + 1
                IN [id |-> wide.index[i], variable |-> var,
                    value |-> wide.data[i][ColumnPos(wide.columns, var)]]]]

\* df.duplicated(subset, keep=False): the rows whose key occurs more than once
Duplicated(df, subset) ==
    [k \in DOMAIN df |->
        \E o \in DOMAIN df : o # k /\ GroupKey(df[o], subset) = GroupKey(df[k], subset)]

\* df[mask] for a boolean mask over the rows
RowsWhere(df, mask) ==
    LET at == Nonzero(mask, 1) IN [k \in 1..Len(at) |-> df[at[k]]]

\* df.dropna(subset=[col])
DropNaRows(df, col) == RowsWhere(df, [k \in DOMAIN df |-> ~IsNa(df[k][col])])

(* A frame of numbers: the column names and the rows.  Column names may    *)
(* repeat (pd.concat keeps both).                                          *)
Frame(columns, data) == [columns |-> columns, data |-> data]
NoFrame == Frame(<<>>, <<>>)

Column(frame, name) ==
    [k \in DOMAIN frame.data |-> frame.data[k][ColumnPos(frame.columns, name)]]

RECURSIVE SortInts(_)
SortInts(S) ==
    IF S = {} THEN <<>>
    ELSE LET least == CHOOSE m \in S : \A o \in S : m <= o
         IN <<least>> \o SortInts(S \ {least})

\* mutant: one indicator column per cluster number, occurring or not
GetDummiesMutant(series) ==
    Frame(<<0, 1, 2>>, [k \in DOMAIN series |->
            [j \in 1..3 |-> AsInt(series[k] = j - 1)]])

\* pd.get_dummies(series): one indicator column per value that occurs, sorted
GetDummies(series) ==
    LET levels == SortInts(Range(series))
    IN Frame(levels, [k \in DOMAIN series |->
            [j \in DOMAIN levels |-> AsInt(series[k] = levels[j])]])

\* lambda x: 'cluster ' + str(x)
ClusterName(k) == "cluster " \o ToString(k)

\* .rename(columns=lambda x: 'cluster ' + str(x))
RenameClusters(frame) ==
    Frame([j \in DOMAIN frame.columns |-> ClusterName(frame.columns[j])], frame.data)

\* pd.concat([a, b], axis=1) of two frames with the same row index
Concat(a, b) ==
    Frame(a.columns \o b.columns, [k \in DOMAIN a.data |-> a.data[k] \o b.data[k]])

\* df.loc[mask, name] = val: a new column starts missing, then the rows are set
LocAssign(frame, mask, name, val) ==
    LET has == name \in Range(frame.columns)
        wide == IF has THEN frame
                ELSE Frame(Append(frame.columns, name),
                           [k \in DOMAIN frame.data |-> Append(frame.data[k], NaN)])
        j == ColumnPos(wide.columns, name)
    IN Frame(wide.columns, [k \in DOMAIN wide.data |->
            IF mask[k] THEN [wide.data[k] EXCEPT ![j] = val] ELSE wide.data[k]])

\* the two .loc lines of the commented-out cell for one cluster number
BadWayOne(frame, k) ==
    LET series == Column(frame, "clusters_kmeans")
        ones == LocAssign(frame, [i \in DOMAIN series |-> series[i] = k],
                          ClusterName(k), 1)
    IN LocAssign(ones, [i \in DOMAIN series |-> series[i] # k], ClusterName(k), 0)

\* the commented-out cell: the six .loc assignments
BadWay(frame) == BadWayOne(BadWayOne(BadWayOne(frame, 0), 1), 2)

----------------------------------------------------------------------------
(* The cells of the pandas notebook *)

StudentColumns == {"ID", "School", "Subjects", "Grade"}

\* cell "df_wide = df.pivot_table(values='Grade', index=['ID', 'School'],
\*       columns='Subjects', aggfunc='last')"
Pivot(n) ==
    IF "df" \notin n.defined THEN Fails(n, "NameError")
    ELSE Done([Bind(n, {"df_wide"}) EXCEPT
                !.df_wide = PivotTable(n.df, "Grade", <<"ID", "School">>, "Subjects")],
              "ok", FALSE, NoArray)

\* cell "pd.melt(df, id_vars=['A'], value_vars=['B', 'C'])": the student table
\* that the other cells read as df has no column A
MeltCell(n) ==
    IF "df" \notin n.defined THEN Fails(n, "NameError")
    ELSE Fails(n, IF "A" \in StudentColumns THEN "ValueError" ELSE "KeyError")

\* pd.melt on the pivoted table, the index as id_vars and every subject column
\* as value_vars
MeltWide(n) ==
    IF "df_wide" \notin n.defined THEN Fails(n, "NameError")
    ELSE LET tall == Melt(n.df_wide, n.df_wide.columns)
         IN Done(n, tall.status, tall.status = "ok", tall.value)

\* cell "dummies = pd.get_dummies(...).rename(...); df_clusters_save = pd.concat(...);
\*       df_clusters_save.columns"
OneHot(n) ==
    IF "df_clusters_save" \notin n.defined THEN Fails(n, "NameError")
    ELSE IF "clusters_kmeans" \notin Range(n.df_clusters_save.columns)
    THEN Fails(n, "KeyError")
    ELSE LET dummies == RenameClusters(
                            GetDummies(Column(n.df_clusters_save, "clusters_kmeans")))
             joined == Concat(n.df_clusters_save, dummies)
         IN Done([Bind(n, {"dummies"}) EXCEPT
                    !.dummies = dummies, !.df_clusters_save = joined],
                 "ok", TRUE, joined.columns)

\* cell "duplicates = df[df.duplicated(subset=['ID', 'School'], keep=False)];
\*       print(duplicates.shape[0]); df_students.drop_duplicates(...)":
\* df_students is assigned nowhere in the notebook
DuplicatesCell(n) ==
    IF "df" \notin n.defined THEN Fails(n, "NameError")
    ELSE LET duplicates == RowsWhere(n.df, Duplicated(n.df, <<"ID", "School">>))
             bound == [Bind(n, {"duplicates"}) EXCEPT !.duplicates = duplicates]
         IN Done(bound, IF "df_students" \in n.defined THEN "ok" ELSE "NameError",
                 TRUE, Len(duplicates))

\* cell "df.dropna(subset=['School'], inplace=True)"
DropNa(n) ==
    IF "df" \notin n.defined THEN Fails(n, "NameError")
    ELSE Done([n EXCEPT !.df = DropNaRows(n.df, "School")], "ok", FALSE, NoArray)

----------------------------------------------------------------------------
(* The session *)

NoNs ==
    [defined |-> {}, v |-> NoArray, nx |-> 0, ny |-> 0, ave |-> NoArray,
     x |-> NoArray, y |-> NoArray, model |-> [fitted |-> FALSE],
     x1 |-> NoArray, x2 |-> NoArray, X |-> NoArray,
     df |-> <<>>, df_wide |-> NoWide, duplicates |-> <<>>,
     df_clusters_save |-> NoFrame, dummies |-> NoFrame]

\* the namespace before the first cell: the data the session was given
InitNs(g) ==
    [NoNs EXCEPT !.defined = g.has, !.v = g.v, !.df = g.df,
                 !.df_clusters_save = g.clusters]

NoOut == [cell |-> "none", p |-> NoParam, status |-> "ok", shown |-> FALSE,
          value |-> NoArray]

\* executing cell c with the inputs p in the namespace n
Exec(c, n, p) ==
    CASE c = "DoubleLoop" -> DoubleLoop(n)
      [] c = "SingleLoop" -> SingleLoop(n)
      [] c = "MeanKeepdims" -> MeanKeepdims(n)
      [] c = "PartialMean" -> PartialMean(n)
      [] c = "Broadcast" -> Broadcast(n, p)
      [] c = "LassoFit" -> LassoFit(n, p)
      [] c = "FitReshape" -> FitReshape(n)
      [] c = "FitNewaxis" -> FitNewaxis(n)
      [] c = "Stack" -> Stack(n, p)
      [] c = "Mask" -> Mask(n, p)
      [] c = "MaskMultiply" -> MaskMultiply(n, p)
      [] c = "Pivot" -> Pivot(n)
      [] c = "Melt" -> MeltCell(n)
      [] c = "MeltWide" -> MeltWide(n)
      [] c = "OneHot" -> OneHot(n)
      [] c = "Duplicates" -> DuplicatesCell(n)
      [] c = "DropNa" -> DropNa(n)

Step(c, p) ==
    LET r == Exec(c, ns, p)
    IN /\ ns' = r.ns
       /\ out' = [cell |-> c, p |-> p, status |-> r.status, shown |-> r.shown,
                  value |-> r.value]
       /\ UNCHANGED given


(* Inputs *)

\* v holds multiples of Unit, so that the mean over up to MaxNy columns is whole
Unit == LcmUpTo(MaxNy)
VVals == {Unit, 2 * Unit}
VInputs ==
    UNION {{Arr(<<nx, ny>>, d) : d \in [1..(nx * ny) -> VVals]} :
            <<nx, ny>> \in (1..MaxNx) \X (1..MaxNy)}

\* the values np.random.randn draws
RandVals == {0, 1}
Rand2D == {Arr(<<NRows, 2>>, d) : d \in [1..(2 * NRows) -> RandVals]}
Rand1D == UNION {{Arr(<<m>>, d) : d \in [1..m -> RandVals]} : m \in 1..MaxSamples}
\* the noise term 0.1 * randn of the regression target: one draw per shape and value
NoiseFor(a) == {Arr(a.shape, [k \in 1..Prod(a.shape) |-> e]) : e \in RandVals}

\* the arrays that are masked: the one of the notebook and all short ones
MaskVals == {4, 5, 6}
Thresholds == {4, 5}
MaskInputs ==
    {Linspace(1, 10, 10)}
        \cup UNION {{Arr(<<m>>, d) : d \in [1..m -> MaskVals]} : m \in 0..MaxLen}

NumpyGiven(v) == [nb |-> "numpy", has |-> {"v"}, v |-> v, df |-> <<>>,
                  clusters |-> NoFrame]

Start(g) ==
    /\ given = g
    /\ ns = InitNs(g)
    /\ out = NoOut
    /\ done = {}

(* The cells that replace loops by array calls *)

DoubleLoopCell == Step("DoubleLoop", NoParam) /\ UNCHANGED done
SingleLoopCell == Step("SingleLoop", NoParam) /\ UNCHANGED done
MeanKeepdimsCell == Step("MeanKeepdims", NoParam) /\ UNCHANGED done
PartialMeanCell == Step("PartialMean", NoParam) /\ UNCHANGED done
StackCell == \E a \in Rand1D : Step("Stack", Param(a, NoArray, 0)) /\ UNCHANGED done

InitLoops == \E v \in VInputs : Start(NumpyGiven(v))
NextLoops ==
    \/ DoubleLoopCell
    \/ SingleLoopCell
    \/ MeanKeepdimsCell
    \/ PartialMeanCell
    \/ StackCell
SpecLoops == InitLoops /\ [][NextLoops]_vars

\* C2: after the double-loop cell, ave holds the mean of every row of v
C2_LoopIsMean ==
    (out.cell = "DoubleLoop" /\ out.status = "ok") => ns.ave = ave_y(ns.v)

\* C5: the long way of the stacking cell completes and leaves X equal to
\* np.column_stack((x1, x2)): an (n, 2) array of the two columns x1 and x2
C5_LongWayIsColumnStack ==
    out.cell = "Stack" =>
        /\ out.status = "ok"
        /\ ns.X = ColumnStack(ns.x1, ns.x2).value
        /\ ns.X.shape = <<ns.x1.shape[1], 2>>
        /\ \A i \in 0..(ns.x1.shape[1] - 1) :
            At2(ns.X, i, 0) = ns.x1.data[i + 1] /\ At2(ns.X, i, 1) = ns.x2.data[i + 1]

(* The cells on broadcasting, the 2-D input of scikit-learn and masking *)

BroadcastCell == \E a \in Rand2D : Step("Broadcast", Param(a, NoArray, 0)) /\ UNCHANGED done
LassoFitCell ==
    \E a \in Rand1D : \E e \in NoiseFor(a) :
        Step("LassoFit", Param(a, e, 0)) /\ UNCHANGED done
FitReshapeCell == Step("FitReshape", NoParam) /\ UNCHANGED done
FitNewaxisCell == Step("FitNewaxis", NoParam) /\ UNCHANGED done
MaskCell ==
    \E a \in MaskInputs : \E t \in Thresholds :
        Step("Mask", Param(a, NoArray, t)) /\ UNCHANGED done
MaskMultiplyCell ==
    \E t \in Thresholds :
        Step("MaskMultiply", Param(NoArray, NoArray, t)) /\ UNCHANGED done

NothingGiven == [nb |-> "numpy", has |-> {}, v |-> NoArray, df |-> <<>>,
                 clusters |-> NoFrame]

\* broadcasting and the 2-D input of scikit-learn
InitShapes == Start(NothingGiven)
NextShapes ==
    \/ BroadcastCell
    \/ LassoFitCell
    \/ FitReshapeCell
    \/ FitNewaxisCell
SpecShapes == InitShapes /\ [][NextShapes]_vars

\* boolean masking
InitMask == Start(NothingGiven)
NextMask ==
    \/ MaskCell
    \/ MaskMultiplyCell
SpecMask == InitMask /\ [][NextMask]_vars

\* C1: x[x > t] is the elements of x greater than t, as often and in the order
\* they occur in x; for x = 1..10 and t = 5 it is [6, 7, 8, 9, 10]
C1_MaskSelects ==
    out.cell = "Mask" =>
        /\ out.status = "ok"
        /\ out.value.data = SelectSeq(ns.x.data, LAMBDA e : e > out.p.thr)
        /\ out.value.shape = <<Len(out.value.data)>>
        /\ (ns.x = Linspace(1, 10, 10) /\ out.p.thr = 5)
                => out.value.data = <<6, 7, 8, 9, 10>>

C1_Witness ==
    /\ out.cell = "Mask"
    /\ ns.x.data = <<1, 2, 3, 4, 5, 6, 7, 8, 9, 10>>
    /\ out.p.thr = 5
    /\ out.value = Arr(<<5>>, <<6, 7, 8, 9, 10>>)

\* C3: x + y fails for x of shape (NRows, 2) and y of shape (2,), and
\* x + y[np.newaxis, :] is the (NRows, 2) array of the x[i, j] + y[j]
C3_PlainAddFails ==
    out.cell = "Broadcast" =>
        /\ Add(ns.x, ns.y).status # "ok"
        /\ out.status = "ok"
        /\ out.value.shape = <<NRows, 2>>
        /\ \A i \in 0..(NRows - 1) : \A j \in 0..1 :
            At2(out.value, i, j) = At2(ns.x, i, j) + ns.y.data[j + 1]

\* C6: x > t has the length of x and x * (x > t) has the length of x, with x[i]
\* where x[i] > t and 0 elsewhere; for x = 1..10 and t = 5 it is
\* [0, 0, 0, 0, 0, 6, 7, 8, 9, 10]
C6_MultiplyKeepsShape ==
    (out.cell = "MaskMultiply" /\ "x" \in ns.defined /\ Ndim(ns.x) = 1) =>
        /\ Greater(ns.x, out.p.thr).shape = ns.x.shape
        /\ Len(Greater(ns.x, out.p.thr).data) = ns.x.shape[1]
        /\ out.status = "ok"
        /\ out.value.shape = ns.x.shape
        /\ Len(out.value.data) = ns.x.shape[1]
        /\ \A i \in 1..ns.x.shape[1] :
            out.value.data[i] = IF ns.x.data[i] > out.p.thr THEN ns.x.data[i] ELSE 0
        /\ (ns.x = Linspace(1, 10, 10) /\ out.p.thr = 5)
                => out.value.data = <<0, 0, 0, 0, 0, 6, 7, 8, 9, 10>>

C6_Witness ==
    /\ out.cell = "MaskMultiply"
    /\ ns.x.data = <<1, 2, 3, 4, 5, 6, 7, 8, 9, 10>>
    /\ out.p.thr = 5
    /\ out.value = Arr(<<10>>, <<0, 0, 0, 0, 0, 6, 7, 8, 9, 10>>)

\* C10: model.fit(x, y) with a 1-D x raises ValueError and fits nothing;
\* x.reshape(-1, 1) and x[:, np.newaxis] are the same (n, 1) array of the
\* elements of x in order, and fit accepts it
C10_FitNeeds2D ==
    /\ out.cell = "LassoFit" =>
        Ndim(ns.x) = 1 /\ out.status = "ValueError" /\ ~ns.model.fitted
    /\ ("x" \in ns.defined /\ Ndim(ns.x) = 1) =>
        /\ Reshape(ns.x, <<-1, 1>>) = Ok(NewAxisLast(ns.x))
        /\ NewAxisLast(ns.x).shape = <<ns.x.shape[1], 1>>
        /\ NewAxisLast(ns.x).data = ns.x.data
    /\ ( /\ out.cell \in {"FitReshape", "FitNewaxis"}
         /\ {"model", "x", "y"} \subseteq ns.defined
         /\ Ndim(ns.x) = 1 /\ ns.x.shape[1] >= 1 /\ ns.y.shape = ns.x.shape ) =>
        out.status = "ok" /\ ns.model.fitted

C10_Witness ==
    /\ out.cell = "FitReshape"
    /\ ns.x.shape = <<MaxSamples>>
    /\ Fit(ns.x, ns.y) = "ValueError"
    /\ out.status = "ok"
    /\ ns.model.fitted

----------------------------------------------------------------------------
(* The tall student table: pivot_table and melt *)

IDs == {"id1", "id2"}
Schools == {"s1", NaN}
SubjectNames == {"art", "math"}
Grades == {"A", "B", NaN}
StudentRows == [ID : IDs, School : Schools, Subjects : SubjectNames, Grade : Grades]
Tables == SeqsOf(StudentRows, 0, MaxRows)

PandasGiven(df, clusters) ==
    [nb |-> "pandas",
     has |-> (IF df = <<>> THEN {} ELSE {"df"})
                \cup (IF clusters = NoFrame THEN {} ELSE {"df_clusters_save"}),
     v |-> NoArray, df |-> df, clusters |-> clusters]

PivotCell == Step("Pivot", NoParam) /\ UNCHANGED done
MeltWideCell == Step("MeltWide", NoParam) /\ UNCHANGED done

InitPivot == \E df \in Tables \ {<<>>} : Start(PandasGiven(df, NoFrame))
NextPivot ==
    \/ PivotCell
    \/ MeltWideCell
SpecPivot == InitPivot /\ [][NextPivot]_vars

\* a row in which no value is missing
Complete(r) == \A col \in DOMAIN r : ~IsNa(r[col])
RowKey(r) == <<r.ID, r.School>>
SameGroup(r, q) == RowKey(r) = RowKey(q) /\ r.Subjects = q.Subjects
NoRepeats(s) == \A i, j \in DOMAIN s : s[i] = s[j] => i = j

\* the cell of the wide table in the row of an index key and the column of a subject
WideCell(wide, key, subject) ==
    LET i == CHOOSE i \in DOMAIN wide.index : wide.index[i] = key
    IN wide.data[i][ColumnPos(wide.columns, subject)]

\* C7 as stated: the wide table has exactly one row per (ID, School) pair of the
\* input, and in it, for each subject of an input row, the Grade of the last
\* input row of that (ID, School, Subjects)
C7_OneRowPerPairOfInput ==
    "df_wide" \in ns.defined =>
        /\ NoRepeats(ns.df_wide.index)
        /\ Range(ns.df_wide.index) = {RowKey(ns.df[k]) : k \in DOMAIN ns.df}
        /\ \A k \in DOMAIN ns.df :
            (\A l \in DOMAIN ns.df : l > k => ~SameGroup(ns.df[l], ns.df[k])) =>
                /\ RowKey(ns.df[k]) \in Range(ns.df_wide.index)
                /\ ns.df[k].Subjects \in Range(ns.df_wide.columns)
                /\ WideCell(ns.df_wide, RowKey(ns.df[k]), ns.df[k].Subjects)
                        = ns.df[k].Grade

\* C7 amended: the wide table has exactly one row per (ID, School) pair of the
\* input rows without a missing value, and in it, for each subject of such a
\* row, the Grade of the last such row of that (ID, School, Subjects)
C7_OneRowPerCompletePair ==
    "df_wide" \in ns.defined =>
        LET full == {k \in DOMAIN ns.df : Complete(ns.df[k])}
        IN /\ NoRepeats(ns.df_wide.index)
           /\ Range(ns.df_wide.index) = {RowKey(ns.df[k]) : k \in full}
           /\ \A k \in full :
                (\A l \in full : l > k => ~SameGroup(ns.df[l], ns.df[k])) =>
                    /\ ns.df[k].Subjects \in Range(ns.df_wide.columns)
                    /\ WideCell(ns.df_wide, RowKey(ns.df[k]), ns.df[k].Subjects)
                            = ns.df[k].Grade

C7_Witness ==
    /\ out.cell = "Pivot"
    /\ Len(ns.df) = 2
    /\ Complete(ns.df[1]) /\ Complete(ns.df[2])
    /\ SameGroup(ns.df[1], ns.df[2])
    /\ ns.df[1].Grade # ns.df[2].Grade
    /\ ns.df_wide.data = <<<<ns.df[2].Grade>>>>

\* a tall row as melt writes it
Melted(r) == [id |-> RowKey(r), variable |-> r.Subjects, value |-> r.Grade]
\* at most one row per (id, variable) pair
OnePerPair(df) == \A i, j \in DOMAIN df : SameGroup(df[i], df[j]) => i = j

\* C8 as stated: pivoting a tall table with at most one row per (id, variable)
\* pair (here: one without missing values) and melting the wide table gives
\* back exactly the rows of the tall table
C8_MeltUndoesPivot ==
    ( /\ out.cell = "MeltWide" /\ out.status = "ok"
      /\ OnePerPair(ns.df)
      /\ \A k \in DOMAIN ns.df : Complete(ns.df[k]) ) =>
        Range(out.value) = {Melted(ns.df[k]) : k \in DOMAIN ns.df}

\* C8 amended: the melted table has one row per row and subject column of the
\* wide table; its rows with a value are exactly the rows of the tall table
\* without a missing value, and its rows without a value are the (id, variable)
\* pairs that have no such row in the tall table
C8_MeltGivesFullGrid ==
    (out.cell = "MeltWide" /\ out.status = "ok" /\ OnePerPair(ns.df)) =>
        LET full == {ns.df[k] : k \in {k \in DOMAIN ns.df : Complete(ns.df[k])}}
        IN /\ Len(out.value) = Len(ns.df_wide.index) * Len(ns.df_wide.columns)
           /\ NoRepeats(out.value)
           /\ {m \in Range(out.value) : ~IsNa(m.value)} = {Melted(r) : r \in full}
           /\ \A m \in Range(out.value) :
                IsNa(m.value) =>
                    ~\E r \in full : RowKey(r) = m.id /\ r.Subjects = m.variable

C8_Witness ==
    /\ out.cell = "MeltWide" /\ out.status = "ok"
    /\ OnePerPair(ns.df)
    /\ Len(ns.df) = 2
    /\ Complete(ns.df[1]) /\ Complete(ns.df[2])
    /\ Len(out.value) = 4
    /\ \E m \in Range(out.value) : IsNa(m.value)

----------------------------------------------------------------------------
(* The table that is one-hot encoded *)

ClusterRows == {<<f, c>> : f \in {7, 8}, c \in {0, 1, 2}}
ClusterFrames ==
    {Frame(<<"feat", "clusters_kmeans">>, d) : d \in SeqsOf(ClusterRows, 1, MaxClusterRows)}

OneHotCell ==
    /\ "OneHot" \notin done
    /\ Step("OneHot", NoParam)
    /\ done' = done \cup {"OneHot"}

InitOneHot == \E f \in ClusterFrames : Start(PandasGiven(<<>>, f))
NextOneHot == OneHotCell
SpecOneHot == InitOneHot /\ [][NextOneHot]_vars

\* the columns the cell added to the frame it was given
Added(frame) == SubSeq(frame.columns, Len(given.clusters.columns) + 1, Len(frame.columns))
OldPart(frame) ==
    Frame(SubSeq(frame.columns, 1, Len(given.clusters.columns)),
          [k \in DOMAIN frame.data |->
              SubSeq(frame.data[k], 1, Len(given.clusters.columns))])

\* C9 as stated: the cell adds exactly 'cluster 0', 'cluster 1', 'cluster 2',
\* 'cluster k' is 1 where clusters_kmeans = k and 0 elsewhere, as the .loc
\* assignments produce; the other columns are unchanged
C9_GoodWayIsBadWay ==
    (out.cell = "OneHot" /\ out.status = "ok") =>
        /\ Added(ns.df_clusters_save) = <<"cluster 0", "cluster 1", "cluster 2">>
        /\ ns.df_clusters_save = BadWay(given.clusters)
        /\ OldPart(ns.df_clusters_save) = given.clusters

\* C9 amended: the cell adds exactly the columns 'cluster k' of the values k
\* that occur in clusters_kmeans, in ascending order; 'cluster k' is 1 where
\* clusters_kmeans = k and 0 elsewhere, as in the frame of the .loc assignments;
\* the other columns are unchanged; the two frames are equal when 0, 1 and 2
\* all occur
C9_GoodWayAddsOccurring ==
    (out.cell = "OneHot" /\ out.status = "ok") =>
        LET good == ns.df_clusters_save
            bad == BadWay(given.clusters)
            series == Column(given.clusters, "clusters_kmeans")
            occurring == Range(series)
        IN /\ Added(good) =
                SelectSeq(<<"cluster 0", "cluster 1", "cluster 2">>,
                          LAMBDA name : \E k \in occurring : name = ClusterName(k))
           /\ Len(Added(good)) = Cardinality(occurring)
           /\ \A k \in occurring : \A i \in DOMAIN series :
                /\ Column(good, ClusterName(k))[i] = (IF series[i] = k THEN 1 ELSE 0)
                /\ Column(good, ClusterName(k))[i] = Column(bad, ClusterName(k))[i]
           /\ \A i \in DOMAIN series :
                Cardinality({j \in DOMAIN Added(good) :
                    good.data[i][Len(given.clusters.columns) + j] = 1}) = 1
           /\ OldPart(good) = given.clusters
           /\ OldPart(bad) = given.clusters
           /\ occurring = {0, 1, 2} => good = bad
           /\ out.value = good.columns

C9_Witness ==
    /\ out.cell = "OneHot" /\ out.status = "ok"
    /\ Range(Column(given.clusters, "clusters_kmeans")) = {0, 1, 2}
    /\ ns.df_clusters_save = BadWay(given.clusters)
    /\ Added(ns.df_clusters_save) = <<"cluster 0", "cluster 1", "cluster 2">>

----------------------------------------------------------------------------
(* The order of the cells.  Every code cell of the two notebooks in document *)
(* order, with the variables it reads before it assigns them and the         *)
(* variables it assigns or modifies in place.  Library names (np, pd) are    *)
(* loaded with the session.                                                  *)

NumpyDoc ==
    <<"DoubleLoop", "SingleLoop", "MeanKeepdims", "PartialMean", "Broadcast",
      "LassoFit", "Stack", "Mask", "MaskMultiply">>

PandasDoc ==
    <<"Imports", "Config", "Reindex", "Merge", "Assign", "Pivot", "MultiIndex",
      "Melt", "BinaryColumn", "BadWayComment", "OneHot", "Duplicates", "ToNumeric",
      "ToCsv", "IsIn", "DropNa", "Rename", "Replace", "StringProcessing">>

\* the cells of the pandas notebook that the model executes
PandasModelled == {"Pivot", "Melt", "OneHot", "Duplicates", "DropNa"}

Doc(nb) == IF nb = "numpy" THEN NumpyDoc ELSE PandasDoc
Cells(nb) == IF nb = "numpy" THEN Range(NumpyDoc) ELSE PandasModelled

Reads(c) ==
    CASE c = "DoubleLoop" -> {"v"}
      [] c = "SingleLoop" -> {"nx", "ave", "v", "n"}
      [] c = "MeanKeepdims" -> {"v"}
      [] c = "PartialMean" -> {"v"}
      [] c = "MaskMultiply" -> {"x"}
      [] c = "Reindex" -> {"df", "FIRST_COLS", "REMAINING_COLS"}
      [] c = "Merge" -> {"df1", "df2"}
      [] c = "OneHot" -> {"df_clusters_save"}
      [] c = "Duplicates" -> {"df", "df_students"}
      [] c = "IsIn" -> {"df", "EXCLUDE_SCHOOLS", "INCLUDE_SCHOOLS"}
      [] c \in {"Assign", "Pivot", "MultiIndex", "Melt", "BinaryColumn", "ToNumeric",
                "ToCsv", "DropNa", "Rename", "Replace", "StringProcessing"} -> {"df"}
      [] OTHER -> {}

Writes(c) ==
    CASE c = "DoubleLoop" -> {"nx", "ny", "ave", "i", "j"}
      [] c = "SingleLoop" -> {"i", "ave"}
      [] c = "MeanKeepdims" -> {"ave"}
      [] c = "PartialMean" -> {"partial", "ave_y"}
      [] c = "Broadcast" -> {"x", "y"}
      [] c = "LassoFit" -> {"Lasso", "x", "y", "model"}
      [] c = "Stack" -> {"x1", "x2", "X"}
      [] c = "Mask" -> {"x"}
      [] c = "Pivot" -> {"df_wide"}
      [] c = "OneHot" -> {"dummies", "df_clusters_save"}
      [] c = "Duplicates" -> {"duplicates", "df_students"}
      [] c = "ToNumeric" -> {"col", "df"}
      [] c = "Rename" -> {"COLUMN_NAMES", "df"}
      [] c = "Replace" -> {"SCHOOL_NAMES", "df"}
      [] c = "StringProcessing" -> {"df_schools_list", "school_names", "df"}
      [] c \in {"Reindex", "BinaryColumn", "DropNa"} -> {"df"}
      [] OTHER -> {}

Position(doc, c) == CHOOSE i \in DOMAIN doc : doc[i] = c

\* the cell reads a variable that the cell immediately before it assigns
ReadsFromPrevious(nb, c) ==
    LET i == Position(Doc(nb), c)
    IN i > 1 /\ Reads(c) \cap Writes(Doc(nb)[i - 1]) # {}

\* the cell reads a variable that some other cell of the notebook assigns
ReadsFromOther(nb, c) ==
    \E o \in Range(Doc(nb)) \ {c} : Reads(c) \cap Writes(o) # {}

\* the inputs of a cell when the cells are executed once each: the literals of
\* the notebook and one draw per random value
OneDraw(shape) == {Arr(shape, [k \in 1..Prod(shape) |-> e]) : e \in RandVals}
ParamsOf(c) ==
    CASE c = "Broadcast" -> {Param(a, NoArray, 0) : a \in OneDraw(<<NRows, 2>>)}
      [] c = "LassoFit" -> {Param(a, Zeros(a.shape), 0) : a \in OneDraw(<<MaxSamples>>)}
      [] c = "Stack" -> {Param(a, NoArray, 0) : a \in OneDraw(<<MaxSamples>>)}
      [] c = "Mask" -> {Param(Linspace(1, 10, 10), NoArray, 5)}
      [] c = "MaskMultiply" -> {Param(NoArray, NoArray, 5)}
      [] OTHER -> {NoParam}

\* the namespace after the first k cells of the document, executed in order
RECURSIVE DocNs(_, _, _)
DocNs(g, doc, k) ==
    IF k = 0 THEN InitNs(g)
    ELSE IF doc[k] \in Cells(g.nb)
    THEN Exec(doc[k], DocNs(g, doc, k - 1), CHOOSE p \in ParamsOf(doc[k]) : TRUE).ns
    ELSE DocNs(g, doc, k - 1)

\* cell c executed with the inputs p at its place in the document
DocRun(g, c, p) == Exec(c, DocNs(g, Doc(g.nb), Position(Doc(g.nb), c) - 1), p)

\* what a cell leaves behind: the variables it assigns
Effect(n, c) ==
    [defined |-> Writes(c) \cap n.defined,
     values |-> [f \in Writes(c) \cap DOMAIN n |-> n[f]]]

\* the cell executed last had the outcome it has in document order
SameAsDocument ==
    LET d == DocRun(given, out.cell, out.p)
    IN /\ out.status = d.status
       /\ out.shown = d.shown
       /\ out.value = d.value
       /\ Effect(ns, out.cell) = Effect(d.ns, out.cell)

\* the tall tables of one student and one subject
OrderTables ==
    {t \in Tables \ {<<>>} :
        \A k \in DOMAIN t : t[k].ID = "id1" /\ t[k].Subjects = "math"}
OrderFrame == Frame(<<"feat", "clusters_kmeans">>, <<<<7, 0>>, <<8, 2>>>>)
OrderV ==
    {a \in VInputs : a.shape = <<MaxNx, MaxNy>> /\ \A k \in 2..Len(a.data) : a.data[k] = Unit}

NextInOrder ==
    \E c \in Cells(given.nb) \ done : \E p \in ParamsOf(c) :
        Step(c, p) /\ done' = done \cup {c}

InitOrder ==
    \/ \E v \in OrderV : Start(NumpyGiven(v))
    \/ \E df \in OrderTables : Start(PandasGiven(df, OrderFrame))
NextOrder == NextInOrder
SpecOrder == InitOrder /\ [][NextOrder]_vars

\* C4 as stated: whatever cells were executed before it, a cell has the outcome
\* it has in document order, unless it reads a variable that the cell
\* immediately before it assigns
C4_OrderIndependent ==
    (out.cell # "none" /\ ~ReadsFromPrevious(given.nb, out.cell)) => SameAsDocument

\* C4 amended: whatever cells were executed before it, a cell has the outcome it
\* has in document order, unless it reads a variable that another cell assigns
\* or modifies in place
C4_IndependentUnlessShared ==
    (out.cell # "none" /\ ~ReadsFromOther(given.nb, out.cell)) => SameAsDocument

C4_Witness ==
    /\ out.cell = "DoubleLoop"
    /\ out.status = "ok"
    /\ done = Range(NumpyDoc)
    /\ ~ReadsFromOther(given.nb, out.cell)
    /\ SameAsDocument

====
